---- MODULE Spec2Model ----
(***************************************************************************)
(* GLX context lifecycle of surfman (platform/unix/x11/context.rs).        *)
(*                                                                         *)
(* The specifications share the variables:                                 *)
(*   Spec        the lifecycle of the contexts owned by one thread: a      *)
(*               Context holds a Box<dyn NativeContext> and raw handles,   *)
(*               so it never leaves the thread that made it, and every     *)
(*               operation on it runs there;                               *)
(*   SpecCreate  several threads creating and adopting contexts            *)
(*               concurrently, which meet only at CREATE_CONTEXT_MUTEX;    *)
(*   FairSpecCreate  SpecCreate under a fair scheduler;                    *)
(*   SpecIdentity    SpecCreate with one of the threads also binding,      *)
(*               unbinding, making current and destroying its contexts;    *)
(*   SpecConfig  the config matcher (create_context_descriptor and         *)
(*               context_descriptor_attributes) over the native configs.   *)
(***************************************************************************)
EXTENDS Integers, Sequences, FiniteSets, TLC

\* ------------------------------------------------------------------ bounds
\* Threads that create contexts concurrently (SpecCreate).
NumThreads == 2
\* Creation calls (create_context, from_current_context) one thread makes.
MaxCalls == 1
\* Creation calls made by all threads together.
MaxAttempts == 2
\* Native framebuffer configs the driver offers (SpecConfig).
MaxConfigs == 2

Threads == 1..NumThreads

\* The thread whose contexts Spec follows.
OpThreads == {1}

VARIABLES
    contexts,         \* Seq of Context values, in the order they were returned
    ghost,            \* per Context value: owning thread, released, history
    next_context_id,  \* the ContextID inside CREATE_CONTEXT_MUTEX
    mutex,            \* the thread holding CREATE_CONTEXT_MUTEX, 0 when free
    pc,               \* per thread: its position inside a creation call
    local,            \* per thread: the locals of its creation call
    calls,            \* per thread: creation calls started
    current,          \* per thread: the native (drawable, context) current
    panicking,        \* per thread: thread::panicking()
    native_contexts,  \* the driver's live GLX contexts: handle -> fb config id
    last,             \* the last step taken: operation, result, native calls
    fb_configs,       \* the driver's framebuffer configs, in native order
    requested,        \* SpecConfig: <<the ContextAttributes last asked for>>
    descriptor,       \* SpecConfig: <<the ContextDescriptor last returned>>
    reported          \* SpecConfig: <<what context_descriptor_attributes said>>

vars == <<contexts, ghost, next_context_id, mutex, pc, local, calls, current,
          panicking, native_contexts, last, fb_configs, requested, descriptor,
          reported>>

lifeVars == <<contexts, ghost, next_context_id, mutex, pc, local, calls,
              current, panicking, native_contexts, last>>

configVars == <<fb_configs, requested, descriptor, reported>>

\* ------------------------------------------------------------ native handles
\* A null GLXContext (ptr::null_mut()) and the zero XID.
NullContext == 0
NoDrawable == 0

\* The context and drawable a host (e.g. Glutin) made current outside the
\* library, which from_current_context wraps.
HostGLXContext == -1
HostDrawable == -1

NoCurrent == [drawable |-> NoDrawable, context |-> NullContext]

\* ------------------------------------------------------------------- values
GLVersions == {[major |-> 3, minor |-> 0], [major |-> 4, minor |-> 5]}

\* The version a host context reports through gl.GetIntegerv.
HostGLVersion == [major |-> 3, minor |-> 3]

\* `as u8`
AsU8(n) == n % 256

\* SurfaceDrawables: Pixmap { glx_pixmap, .. } | Window { window }
SurfaceDrawables ==
    {[variant |-> "Pixmap", xid |-> 101], [variant |-> "Window", xid |-> 102]}

\* The identities surfaces are made for: those one thread's contexts can
\* have, and one more for a context elsewhere.
ContextIDs == 0..MaxCalls

\* A Surface as this file sees it: the identity of the context it was made
\* for, and its drawables.
Surfaces == [context_id : ContextIDs, drawables : SurfaceDrawables]

NoSurface == [context_id |-> -1, drawables |-> [variant |-> "none", xid |-> 0]]

\* Framebuffer<Surface>: None | External | Surface(surface)
FramebufferNone == [tag |-> "None", surface |-> NoSurface]
FramebufferExternal == [tag |-> "External", surface |-> NoSurface]
FramebufferSurface(surface) == [tag |-> "Surface", surface |-> surface]

\* ---------------------------------------------------------- NativeContext
\* trait NativeContext, as the tagged pair (variant, glx_context).
OwnedGLXContext(h) == [variant |-> "Owned", glx_context |-> h]
UnsafeGLXContextRef(h) == [variant |-> "Ref", glx_context |-> h]

glx_context(native_context) == native_context.glx_context

is_destroyed(native_context) == native_context.glx_context = NullContext

\* A native entry point invoked: the drawable and context handed to it and
\* whether it reported success.
NativeCall(fn, drawable, context, ok) ==
    [fn |-> fn, drawable |-> drawable, context |-> context, ok |-> ok]

Fns(cs) == {cs[i].fn : i \in DOMAIN cs}

\* ------------------------------------------------------------- bookkeeping
NoLocal == [how |-> "none", call |-> 0, gl_version |-> HostGLVersion,
            fb_config_id |-> 0, glx_context |-> NullContext,
            dummy_glx_pixmap |-> NoDrawable, id |-> 0, ticket |-> 0]

Step(op, t, c, arg, result, ret, cs) ==
    [op |-> op, thread |-> t, ctx |-> c, arg |-> arg, result |-> result,
     ret |-> ret, calls |-> cs]

Sum(f) ==
    LET RECURSIVE S(_)
        S(D) == IF D = {} THEN 0
                ELSE LET x == CHOOSE y \in D : TRUE IN f[x] + S(D \ {x})
    IN S(DOMAIN f)

\* Creation calls started so far.
Attempts == Sum(calls)

\* The number of thread t's next creation call among all creation calls: the
\* fresh handle and XID the driver gives out for it.
CallNo(t) == NumThreads * calls[t] + t

\* The configs of a native list, by GLX_FBCONFIG_ID.
ConfigIDs(cfgs) == {cfgs[i].id : i \in DOMAIN cfgs}

\* A framebuffer config of the driver, with the attributes the file reads.
FBConfig(id, alpha, depth, stencil) ==
    [id |-> id, alpha_size |-> alpha, depth_size |-> depth,
     stencil_size |-> stencil]

\* The configs of the display Spec and SpecCreate run against.
DefaultFBConfigs == <<FBConfig(1, 8, 24, 0)>>

\* ContextDescriptor { pixmap_glx_fb_config_id, gl_version }, for the configs
\* the display has (context_descriptor_to_glx_fb_config finds the id).
ContextDescriptors ==
    [pixmap_glx_fb_config_id : ConfigIDs(fb_configs), gl_version : GLVersions]

\* What the driver knows of a live native context.
NativeContextInfo(fb_config_id, gl_version) ==
    [fb_config_id |-> fb_config_id, gl_version |-> gl_version]

\* struct Context
Context(native_context, id, framebuffer, gl_version, dummy_glx_pixmap) ==
    [native_context |-> native_context, id |-> id,
     framebuffer |-> framebuffer, gl_version |-> gl_version,
     dummy_glx_pixmap |-> dummy_glx_pixmap]

\* What is remembered of a Context value: the thread holding it, the place of
\* its creation call among the acquisitions of the lock, what became of it.
Ghost(t) ==
    [thread |-> t, ticket |-> local[t].ticket, dropped |-> FALSE,
     destroy_ok |-> FALSE, glXDestroyContext |-> 0, glXDestroyPixmap |-> 0]

\* ------------------------------------------------------- creation: the lock
\* Faulty variant: lock() that does not wait for the guard to be released.
MutexFree_NoLock == TRUE

\* CREATE_CONTEXT_MUTEX.lock() returns only while no thread holds the guard.
MutexFree == mutex = 0

\* Faulty variant: the guard released only by the return that hands out a
\* context.
Return_LeaksOnError(t, step) ==
    /\ mutex' = IF step.result = "Ok" THEN 0 ELSE mutex
    /\ pc' = [pc EXCEPT ![t] = "idle"]
    /\ local' = [local EXCEPT ![t] = NoLocal]
    /\ last' = step

\* The guard goes out of scope on every return.
Return(t, step) ==
    /\ mutex' = 0
    /\ pc' = [pc EXCEPT ![t] = "idle"]
    /\ local' = [local EXCEPT ![t] = NoLocal]
    /\ last' = step

\* Faulty variant: the guard taken over without waiting for its holder.
Lock_NoWait(t, how) ==
    /\ pc[t] = "idle"
    /\ ~panicking[t]
    /\ calls[t] < MaxCalls
    /\ Attempts < MaxAttempts
    /\ mutex' = t
    /\ pc' = [pc EXCEPT ![t] = how]
    /\ calls' = [calls EXCEPT ![t] = @ + 1]
    /\ last' = Step(how, t, 0, NoSurface, "locked", NoSurface, <<>>)

\* let mut next_context_id = CREATE_CONTEXT_MUTEX.lock().unwrap();
Lock(t, how) ==
    /\ pc[t] = "idle"
    /\ ~panicking[t]
    /\ calls[t] < MaxCalls
    /\ Attempts < MaxAttempts
    /\ MutexFree
    /\ mutex' = t
    /\ pc' = [pc EXCEPT ![t] = how]
    /\ calls' = [calls EXCEPT ![t] = @ + 1]
    /\ last' = Step(how, t, 0, NoSurface, "locked", NoSurface, <<>>)

\* create_context, entry: the lock, then the descriptor's config.
CreateContextLock(t, d) ==
    /\ Lock(t, "create_context")
    /\ local' = [local EXCEPT ![t] =
                    [NoLocal EXCEPT !.how = "create_context",
                                    !.call = CallNo(t),
                                    !.ticket = Attempts + 1,
                                    !.gl_version = d.gl_version,
                                    !.fb_config_id = d.pixmap_glx_fb_config_id]]
    /\ UNCHANGED <<contexts, ghost, next_context_id, current, panicking,
                   native_contexts>>
    /\ UNCHANGED configVars

\* glx.CreateContextAttribsARB: a fresh handle, or null.
CreateContextAttribsARB(t, ok) ==
    /\ pc[t] = "create_context"
    /\ LET h == local[t].call
           call == NativeCall("CreateContextAttribsARB", NoDrawable,
                              IF ok THEN h ELSE NullContext, ok)
       IN IF ok
          THEN /\ native_contexts' = native_contexts @@
                     (h :> NativeContextInfo(local[t].fb_config_id,
                                             local[t].gl_version))
               /\ local' = [local EXCEPT ![t].glx_context = h]
               /\ pc' = [pc EXCEPT ![t] = "create_pixmaps"]
               /\ last' = Step("create_context", t, 0, NoSurface, "native",
                               NoSurface, <<call>>)
               /\ UNCHANGED mutex
          ELSE /\ Return(t, Step("create_context", t, 0, NoSurface,
                                 "ContextCreationFailed", NoSurface, <<call>>))
               /\ UNCHANGED native_contexts
    /\ UNCHANGED <<contexts, ghost, next_context_id, calls, current, panicking>>
    /\ UNCHANGED configVars

\* from_current_context, entry: the lock.
FromCurrentContextLock(t) ==
    /\ Lock(t, "from_current_context")
    /\ local' = [local EXCEPT ![t] =
                    [NoLocal EXCEPT !.how = "from_current_context",
                                    !.call = CallNo(t),
                                    !.ticket = Attempts + 1]]
    /\ UNCHANGED <<contexts, ghost, next_context_id, current, panicking,
                   native_contexts>>
    /\ UNCHANGED configVars

\* glx.GetCurrentDisplay is null exactly when the thread has no current
\* context; otherwise glx.GetCurrentContext, gl.GetIntegerv and
\* get_fb_config_id read the current context.
GetCurrentContext(t) ==
    /\ pc[t] = "from_current_context"
    /\ IF current[t].context = NullContext
       THEN Return(t, Step("from_current_context", t, 0, NoSurface,
                           "NoCurrentContext", NoSurface, <<>>))
       ELSE LET h == current[t].context
                info == native_contexts[h]
            IN /\ local' = [local EXCEPT ![t] =
                     [@ EXCEPT !.glx_context = h,
                               !.fb_config_id = info.fb_config_id,
                               !.gl_version =
                                   [major |-> AsU8(info.gl_version.major),
                                    minor |-> AsU8(info.gl_version.minor)]]]
               /\ pc' = [pc EXCEPT ![t] = "create_pixmaps"]
               /\ last' = Step("from_current_context", t, 0, NoSurface,
                               "native", NoSurface, <<>>)
               /\ UNCHANGED mutex
    /\ UNCHANGED <<contexts, ghost, next_context_id, calls, current, panicking,
                   native_contexts>>
    /\ UNCHANGED configVars

\* Faulty variant: the native context made by create_context destroyed again
\* when create_pixmaps fails.
CreatePixmaps_DestroysContext(t, ok) ==
    /\ pc[t] = "create_pixmaps"
    /\ IF ok
       THEN /\ local' = [local EXCEPT ![t].dummy_glx_pixmap = local[t].call]
            /\ pc' = [pc EXCEPT ![t] = "assign_id"]
            /\ last' = Step(local[t].how, t, 0, NoSurface, "pixmaps",
                            NoSurface, <<>>)
            /\ UNCHANGED <<mutex, native_contexts>>
       ELSE /\ Return(t, Step(local[t].how, t, 0, NoSurface,
                              "CreatePixmapsFailed", NoSurface, <<>>))
            /\ native_contexts' =
                   IF local[t].how = "create_context"
                   THEN [h \in DOMAIN native_contexts \ {local[t].glx_context}
                            |-> native_contexts[h]]
                   ELSE native_contexts
    /\ UNCHANGED <<contexts, ghost, next_context_id, calls, current, panicking>>
    /\ UNCHANGED configVars

\* surface::create_pixmaps(..)?: the scratch drawable, or the error returned.
CreatePixmaps(t, ok) ==
    /\ pc[t] = "create_pixmaps"
    /\ IF ok
       THEN /\ local' = [local EXCEPT ![t].dummy_glx_pixmap = local[t].call]
            /\ pc' = [pc EXCEPT ![t] = "assign_id"]
            /\ last' = Step(local[t].how, t, 0, NoSurface, "pixmaps",
                            NoSurface, <<>>)
            /\ UNCHANGED mutex
       ELSE Return(t, Step(local[t].how, t, 0, NoSurface,
                           "CreatePixmapsFailed", NoSurface, <<>>))
    /\ UNCHANGED <<contexts, ghost, next_context_id, calls, current, panicking,
                   native_contexts>>
    /\ UNCHANGED configVars

\* id: *next_context_id
AssignId(t) ==
    /\ pc[t] = "assign_id"
    /\ local' = [local EXCEPT ![t].id = next_context_id]
    /\ pc' = [pc EXCEPT ![t] = "increment_id"]
    /\ last' = Step(local[t].how, t, 0, NoSurface, "assigned", NoSurface, <<>>)
    /\ UNCHANGED <<contexts, ghost, next_context_id, mutex, calls, current,
                   panicking, native_contexts>>
    /\ UNCHANGED configVars

\* The Context value the call returns.
NewContext(l) ==
    IF l.how = "create_context"
    THEN Context(OwnedGLXContext(l.glx_context), l.id, FramebufferNone,
                 l.gl_version, l.dummy_glx_pixmap)
    ELSE Context(UnsafeGLXContextRef(l.glx_context), l.id, FramebufferExternal,
                 l.gl_version, l.dummy_glx_pixmap)

\* Faulty variant: the counter not advanced.
NextId_Stays(id) == id

\* The counter after `next_context_id.0 += 1`.
NextId(id) == id + 1

\* next_context_id.0 += 1; Ok(context)
IncrementId(t) ==
    /\ pc[t] = "increment_id"
    /\ next_context_id' = NextId(next_context_id)
    /\ contexts' = Append(contexts, NewContext(local[t]))
    /\ ghost' = Append(ghost, Ghost(t))
    /\ Return(t, Step(local[t].how, t, Len(contexts) + 1, NoSurface, "Ok",
                      NoSurface, <<>>))
    /\ UNCHANGED <<calls, current, panicking, native_contexts>>
    /\ UNCHANGED configVars

\* The host makes its own context current on the thread, outside the library.
HostMakeCurrent(t) ==
    /\ pc[t] = "idle"
    /\ ~panicking[t]
    /\ current[t] # [drawable |-> HostDrawable, context |-> HostGLXContext]
    /\ current' = [current EXCEPT ![t] =
                      [drawable |-> HostDrawable, context |-> HostGLXContext]]
    /\ last' = Step("host_make_current", t, 0, NoSurface, "Ok", NoSurface, <<>>)
    /\ UNCHANGED <<contexts, ghost, next_context_id, mutex, pc, local, calls,
                   panicking, native_contexts>>
    /\ UNCHANGED configVars

\* ------------------------------------------------- current-context switch
\* glx.MakeCurrent(display, drawable, context): on failure the thread's
\* current context stays what it was.
MakeCurrent(cur, drawable, context, ok) ==
    IF ok THEN [drawable |-> drawable, context |-> context] ELSE cur

\* Faulty variant: the dummy pixmap also when a surface is bound.
Drawable_AlwaysDummy(context) == context.dummy_glx_pixmap

\* The drawable make_context_current resolves for a framebuffer that is not
\* External: the surface's glx_pixmap or window, else the dummy pixmap.
Drawable(context) ==
    IF context.framebuffer.tag = "Surface"
    THEN context.framebuffer.surface.drawables.xid
    ELSE context.dummy_glx_pixmap

\* Faulty variant: External resolved like None, to the dummy pixmap.
make_context_current_ExternalAsNone(context, cur, ok) ==
    LET h == glx_context(context.native_context)
        d == Drawable(context)
    IN [result |-> IF ok THEN "Ok" ELSE "MakeCurrentFailed",
        calls |-> <<NativeCall("MakeCurrent", d, h, ok)>>,
        current |-> MakeCurrent(cur, d, h, ok)]

\* make_context_current(context); `ok` is what glx.MakeCurrent answers.
make_context_current(context, cur, ok) ==
    IF context.framebuffer.tag = "External"
    THEN [result |-> "ExternalRenderTarget", calls |-> <<>>, current |-> cur]
    ELSE LET h == glx_context(context.native_context)
             d == Drawable(context)
         IN [result |-> IF ok THEN "Ok" ELSE "MakeCurrentFailed",
             calls |-> <<NativeCall("MakeCurrent", d, h, ok)>>,
             current |-> MakeCurrent(cur, d, h, ok)]

\* make_no_context_current()
make_no_context_current(cur, ok) ==
    [result |-> IF ok THEN "Ok" ELSE "MakeCurrentFailed",
     calls |-> <<NativeCall("MakeCurrent", NoDrawable, NullContext, ok)>>,
     current |-> MakeCurrent(cur, NoDrawable, NullContext, ok)]

\* Faulty variant: gl.Flush and glx.SwapBuffers for a window too.
flush_context_surface_SwapsWindow(context, cur, ok) ==
    LET mc == make_context_current(context, cur, ok)
        fb == context.framebuffer
    IN IF mc.result # "Ok" THEN mc
       ELSE IF fb.tag = "Surface"
       THEN [mc EXCEPT !.calls = @ \o
                <<NativeCall("Flush", NoDrawable, NullContext, TRUE),
                  NativeCall("SwapBuffers", fb.surface.drawables.xid,
                             NullContext, TRUE)>>]
       ELSE mc

\* flush_context_surface(context)
flush_context_surface(context, cur, ok) ==
    LET mc == make_context_current(context, cur, ok)
        fb == context.framebuffer
    IN IF mc.result # "Ok" THEN mc
       ELSE IF fb.tag = "Surface" /\ fb.surface.drawables.variant = "Pixmap"
       THEN [mc EXCEPT !.calls = @ \o
                <<NativeCall("Flush", NoDrawable, NullContext, TRUE),
                  NativeCall("SwapBuffers", fb.surface.drawables.xid,
                             NullContext, TRUE)>>]
       ELSE mc

\* ------------------------------------------------- framebuffer binding
\* Faulty variant: the framebuffer matched before the identities are compared.
bind_surface_to_context_StateFirst(context, surface) ==
    IF context.framebuffer.tag = "External"
    THEN [result |-> "ExternalRenderTarget", context |-> context]
    ELSE IF context.framebuffer.tag = "Surface"
    THEN [result |-> "SurfaceAlreadyBound", context |-> context]
    ELSE IF context.id # surface.context_id
    THEN [result |-> "IncompatibleSurface", context |-> context]
    ELSE [result |-> "Ok",
          context |-> [context EXCEPT !.framebuffer = FramebufferSurface(surface)]]

\* Faulty variant: a bound surface replaced by the new one.
bind_surface_to_context_Rebinds(context, surface) ==
    IF context.id # surface.context_id
    THEN [result |-> "IncompatibleSurface", context |-> context]
    ELSE IF context.framebuffer.tag = "External"
    THEN [result |-> "ExternalRenderTarget", context |-> context]
    ELSE [result |-> "Ok",
          context |-> [context EXCEPT !.framebuffer = FramebufferSurface(surface)]]

\* Faulty variant: the surface stored in an External context's framebuffer
\* although the error is returned.
bind_surface_to_context_KeepsOnError(context, surface) ==
    IF context.id # surface.context_id
    THEN [result |-> "IncompatibleSurface", context |-> context]
    ELSE IF context.framebuffer.tag = "None"
    THEN [result |-> "Ok",
          context |-> [context EXCEPT !.framebuffer = FramebufferSurface(surface)]]
    ELSE IF context.framebuffer.tag = "External"
    THEN [result |-> "ExternalRenderTarget",
          context |-> [context EXCEPT !.framebuffer = FramebufferSurface(surface)]]
    ELSE [result |-> "SurfaceAlreadyBound", context |-> context]

\* bind_surface_to_context(context, surface)
bind_surface_to_context(context, surface) ==
    IF context.id # surface.context_id
    THEN [result |-> "IncompatibleSurface", context |-> context]
    ELSE IF context.framebuffer.tag = "None"
    THEN [result |-> "Ok",
          context |-> [context EXCEPT !.framebuffer = FramebufferSurface(surface)]]
    ELSE IF context.framebuffer.tag = "External"
    THEN [result |-> "ExternalRenderTarget", context |-> context]
    ELSE [result |-> "SurfaceAlreadyBound", context |-> context]

\* mem::replace(&mut context.framebuffer, Framebuffer::None): the context
\* after it (the value replaced is the framebuffer before).
TakeFramebuffer(context) == [context EXCEPT !.framebuffer = FramebufferNone]

\* Faulty variant: the flush's error returned (`?`) instead of dropped.
unbind_surface_from_context_Propagates(context, cur, ok) ==
    LET flush == flush_context_surface(context, cur, ok)
        fb == context.framebuffer
    IN IF flush.result # "Ok"
       THEN [result |-> flush.result, ret |-> NoSurface, context |-> context,
             calls |-> flush.calls, current |-> flush.current]
       ELSE [result |-> "Ok", ret |-> fb.surface,
             context |-> [context EXCEPT !.framebuffer = FramebufferNone],
             calls |-> flush.calls, current |-> flush.current]

\* Faulty variant: after a failed flush the framebuffer is left in place and
\* Ok(None) returned.
unbind_surface_from_context_KeepsOnFailure(context, cur, ok) ==
    LET flush == flush_context_surface(context, cur, ok)
        fb == context.framebuffer
    IN IF flush.result = "MakeCurrentFailed"
       THEN [result |-> "Ok", ret |-> NoSurface, context |-> context,
             calls |-> flush.calls, current |-> flush.current]
       ELSE [result |-> IF fb.tag = "External" THEN "ExternalRenderTarget"
                        ELSE "Ok",
             ret |-> fb.surface,
             context |-> [context EXCEPT !.framebuffer = FramebufferNone],
             calls |-> flush.calls, current |-> flush.current]

\* unbind_surface_from_context(context): the flush, its result dropped, then
\* the match on the framebuffer taken out.
unbind_surface_from_context(context, cur, ok) ==
    LET flush == flush_context_surface(context, cur, ok)
        fb == context.framebuffer
    IN [result |-> IF fb.tag = "External" THEN "ExternalRenderTarget" ELSE "Ok",
        ret |-> fb.surface,
        context |-> TakeFramebuffer(context),
        calls |-> flush.calls,
        current |-> flush.current]

\* self.surface_info(surface), of the surface subsystem.
SurfaceInfo(surface) ==
    [context_id |-> surface.context_id, id |-> surface.drawables.xid]

NoSurfaceInfo == SurfaceInfo(NoSurface)

\* Faulty variant: Ok(None) for an External framebuffer.
context_surface_info_ExternalAsNone(context) ==
    [result |-> "Ok", ret |-> SurfaceInfo(context.framebuffer.surface)]

\* context_surface_info(context)
context_surface_info(context) ==
    [result |-> IF context.framebuffer.tag = "External"
                THEN "ExternalRenderTarget" ELSE "Ok",
     ret |-> SurfaceInfo(context.framebuffer.surface)]

\* context_descriptor(context): get_fb_config_id asks the driver.
context_descriptor(context) ==
    [pixmap_glx_fb_config_id |->
         native_contexts[glx_context(context.native_context)].fb_config_id,
     gl_version |-> context.gl_version]

\* context_id(context)
context_id(context) == context.id

\* ------------------------------------------------------------ destruction
\* NativeContext::destroy: OwnedGLXContext detaches the thread's current
\* context (the answer of glx.MakeCurrent is not looked at), destroys the
\* native context and nulls the handle; UnsafeGLXContextRef nulls the handle.
\* Faulty variant: the handle not nulled after glx.DestroyContext.
OwnedDestroy_KeepsHandle(native_context, cur, ok) ==
    [native_context |-> native_context,
     calls |-> <<NativeCall("MakeCurrent", NoDrawable, NullContext, ok),
                 NativeCall("DestroyContext", NoDrawable,
                            native_context.glx_context, TRUE)>>,
     current |-> MakeCurrent(cur, NoDrawable, NullContext, ok)]

\* Faulty variant: the thread's current context detached only when it is the
\* context being destroyed.
OwnedDestroy_DetachesOwnOnly(native_context, cur, ok) ==
    IF cur.context = native_context.glx_context
    THEN [native_context |-> OwnedGLXContext(NullContext),
          calls |-> <<NativeCall("MakeCurrent", NoDrawable, NullContext, ok),
                      NativeCall("DestroyContext", NoDrawable,
                                 native_context.glx_context, TRUE)>>,
          current |-> MakeCurrent(cur, NoDrawable, NullContext, ok)]
    ELSE [native_context |-> OwnedGLXContext(NullContext),
          calls |-> <<NativeCall("DestroyContext", NoDrawable,
                                 native_context.glx_context, TRUE)>>,
          current |-> cur]

OwnedDestroy(native_context, cur, ok) ==
    [native_context |-> OwnedGLXContext(NullContext),
     calls |-> <<NativeCall("MakeCurrent", NoDrawable, NullContext, ok),
                 NativeCall("DestroyContext", NoDrawable,
                            native_context.glx_context, TRUE)>>,
     current |-> MakeCurrent(cur, NoDrawable, NullContext, ok)]

\* Faulty variant: the borrowed handle not nulled.
RefDestroy_KeepsHandle(native_context, cur, ok) ==
    [native_context |-> native_context, calls |-> <<>>, current |-> cur]

RefDestroy(native_context, cur, ok) ==
    [native_context |-> UnsafeGLXContextRef(NullContext),
     calls |-> <<>>,
     current |-> cur]

\* Faulty variant: the native destroy run for a borrowed handle too.
destroy_AlwaysNative(native_context, cur, ok) ==
    [native_context |-> [native_context EXCEPT !.glx_context = NullContext],
     calls |-> <<NativeCall("MakeCurrent", NoDrawable, NullContext, ok),
                 NativeCall("DestroyContext", NoDrawable,
                            native_context.glx_context, TRUE)>>,
     current |-> MakeCurrent(cur, NoDrawable, NullContext, ok)]

destroy(native_context, cur, ok) ==
    IF native_context.variant = "Owned"
    THEN OwnedDestroy(native_context, cur, ok)
    ELSE RefDestroy(native_context, cur, ok)

\* The scratch drawable released: glx.DestroyPixmap, dummy_glx_pixmap = 0.
DestroyDummyPixmap(context) == [context EXCEPT !.dummy_glx_pixmap = NoDrawable]

\* Faulty variant: the dummy pixmap released before the bound surface is
\* destroyed.
destroy_context_PixmapFirst(context, cur, surface_ok, ok) ==
    IF is_destroyed(context.native_context)
    THEN [result |-> "Ok", context |-> context, calls |-> <<>>, current |-> cur]
    ELSE LET fb == context.framebuffer
             taken == TakeFramebuffer(context)
             pixmap_calls == <<NativeCall("DestroyPixmap",
                                          context.dummy_glx_pixmap,
                                          NullContext, TRUE)>>
             surface_calls ==
                 IF fb.tag = "Surface"
                 THEN <<NativeCall("destroy_surface", fb.surface.drawables.xid,
                                   NullContext, surface_ok)>>
                 ELSE <<>>
             nd == destroy(context.native_context, cur, ok)
         IN IF fb.tag = "Surface" /\ ~surface_ok
            THEN [result |-> "DestroySurfaceFailed",
                  context |-> DestroyDummyPixmap(taken),
                  calls |-> pixmap_calls \o surface_calls, current |-> cur]
            ELSE [result |-> "Ok",
                  context |-> [DestroyDummyPixmap(taken) EXCEPT
                                  !.native_context = nd.native_context],
                  calls |-> pixmap_calls \o surface_calls \o nd.calls,
                  current |-> nd.current]

\* Faulty variant: the error of destroy_surface kept until the teardown is
\* complete, and returned then.
destroy_context_ErrorLast(context, cur, surface_ok, ok) ==
    IF is_destroyed(context.native_context)
    THEN [result |-> "Ok", context |-> context, calls |-> <<>>, current |-> cur]
    ELSE LET fb == context.framebuffer
             taken == TakeFramebuffer(context)
             surface_calls ==
                 IF fb.tag = "Surface"
                 THEN <<NativeCall("destroy_surface", fb.surface.drawables.xid,
                                   NullContext, surface_ok)>>
                 ELSE <<>>
             nd == destroy(context.native_context, cur, ok)
         IN [result |-> IF fb.tag = "Surface" /\ ~surface_ok
                        THEN "DestroySurfaceFailed" ELSE "Ok",
             context |-> [DestroyDummyPixmap(taken) EXCEPT
                             !.native_context = nd.native_context],
             calls |-> surface_calls
                 \o <<NativeCall("DestroyPixmap", context.dummy_glx_pixmap,
                                 NullContext, TRUE)>>
                 \o nd.calls,
             current |-> nd.current]

\* destroy_context(context); `surface_ok` is what destroy_surface answers for
\* the surface taken out of the framebuffer, `ok` what glx.MakeCurrent answers
\* inside OwnedGLXContext::destroy.
destroy_context(context, cur, surface_ok, ok) ==
    IF is_destroyed(context.native_context)
    THEN [result |-> "Ok", context |-> context, calls |-> <<>>, current |-> cur]
    ELSE LET fb == context.framebuffer
             taken == TakeFramebuffer(context)
             surface_calls ==
                 IF fb.tag = "Surface"
                 THEN <<NativeCall("destroy_surface", fb.surface.drawables.xid,
                                   NullContext, surface_ok)>>
                 ELSE <<>>
             nd == destroy(context.native_context, cur, ok)
         IN IF fb.tag = "Surface" /\ ~surface_ok
            THEN [result |-> "DestroySurfaceFailed", context |-> taken,
                  calls |-> surface_calls, current |-> cur]
            ELSE [result |-> "Ok",
                  context |-> [DestroyDummyPixmap(taken) EXCEPT
                                  !.native_context = nd.native_context],
                  calls |-> surface_calls
                      \o <<NativeCall("DestroyPixmap", context.dummy_glx_pixmap,
                                      NullContext, TRUE)>>
                      \o nd.calls,
                  current |-> nd.current]

\* impl Drop for Context: whether the drop panics.
DropPanics(context, unwinding) ==
    ~is_destroyed(context.native_context) /\ ~unwinding

\* ------------------------------------------------------ the operations
Count(cs, fn) == Cardinality({i \in DOMAIN cs : cs[i].fn = fn})

Live(h) == h \in DOMAIN native_contexts

\* The thread is running and inside no creation call.
Idle(t) == pc[t] = "idle" /\ ~panicking[t]

\* Context value c belongs to thread t and has not been released.
Mine(t, c) == c \in DOMAIN contexts /\ ghost[c].thread = t /\ ~ghost[c].dropped

\* A destroyed context is only destroyed again or released: glx_context()
\* debug-asserts that the handle is not destroyed, and programs do not use a
\* context after destroy_context.
Usable(t, c) ==
    Idle(t) /\ Mine(t, c) /\ ~is_destroyed(contexts[c].native_context)

\* What glx.MakeCurrent can answer for a context: a dead handle never succeeds.
Answers(context) ==
    IF Live(glx_context(context.native_context)) THEN BOOLEAN ELSE {FALSE}

lifeRest == <<next_context_id, mutex, pc, local, calls>>

BindSurface(t, c, surface) ==
    /\ Usable(t, c)
    /\ LET r == bind_surface_to_context(contexts[c], surface)
       IN /\ contexts' = [contexts EXCEPT ![c] = r.context]
          /\ last' = Step("bind_surface", t, c, surface, r.result, NoSurface,
                          <<>>)
    /\ UNCHANGED <<ghost, current, panicking, native_contexts, lifeRest>>
    /\ UNCHANGED configVars

UnbindSurface(t, c, ok) ==
    /\ Usable(t, c)
    /\ ok \in Answers(contexts[c])
    /\ LET r == unbind_surface_from_context(contexts[c], current[t], ok)
       IN /\ contexts' = [contexts EXCEPT ![c] = r.context]
          /\ current' = [current EXCEPT ![t] = r.current]
          /\ last' = Step("unbind_surface", t, c, NoSurface, r.result,
                          IF r.result = "Ok" THEN r.ret ELSE NoSurface, r.calls)
    /\ UNCHANGED <<ghost, panicking, native_contexts, lifeRest>>
    /\ UNCHANGED configVars

ContextSurfaceInfo(t, c) ==
    /\ Usable(t, c)
    /\ LET r == context_surface_info(contexts[c])
       IN last' = Step("surface_info", t, c, NoSurface, r.result,
                       IF r.result = "Ok" THEN r.ret ELSE NoSurfaceInfo, <<>>)
    /\ UNCHANGED <<contexts, ghost, current, panicking, native_contexts,
                   lifeRest>>
    /\ UNCHANGED configVars

MakeContextCurrent(t, c, ok) ==
    /\ Usable(t, c)
    /\ ok \in Answers(contexts[c])
    /\ LET r == make_context_current(contexts[c], current[t], ok)
       IN /\ current' = [current EXCEPT ![t] = r.current]
          /\ last' = Step("make_current", t, c, NoSurface, r.result, NoSurface,
                          r.calls)
    /\ UNCHANGED <<contexts, ghost, panicking, native_contexts, lifeRest>>
    /\ UNCHANGED configVars

MakeNoContextCurrent(t, ok) ==
    /\ Idle(t)
    /\ LET r == make_no_context_current(current[t], ok)
       IN /\ current' = [current EXCEPT ![t] = r.current]
          /\ last' = Step("make_no_context_current", t, 0, NoSurface, r.result,
                          NoSurface, r.calls)
    /\ UNCHANGED <<contexts, ghost, panicking, native_contexts, lifeRest>>
    /\ UNCHANGED configVars

\* get_fb_config_id asserts that glx.QueryContext succeeds.
ContextDescriptor(t, c) ==
    /\ Usable(t, c)
    /\ IF Live(glx_context(contexts[c].native_context))
       THEN /\ last' = Step("context_descriptor", t, c, NoSurface, "Ok",
                            context_descriptor(contexts[c]), <<>>)
            /\ UNCHANGED panicking
       ELSE /\ last' = Step("context_descriptor", t, c, NoSurface, "panic",
                            NoSurface, <<>>)
            /\ panicking' = [panicking EXCEPT ![t] = TRUE]
    /\ UNCHANGED <<contexts, ghost, current, native_contexts, lifeRest>>
    /\ UNCHANGED configVars

ContextId(t, c) ==
    /\ Usable(t, c)
    /\ last' = Step("context_id", t, c, NoSurface, "Ok",
                    [id |-> context_id(contexts[c])], <<>>)
    /\ UNCHANGED <<contexts, ghost, current, panicking, native_contexts,
                   lifeRest>>
    /\ UNCHANGED configVars

\* glx.DestroyContext: a context still current on the thread lives on until
\* it is released.
AfterDestroyContext(cs, cur) ==
    LET dead == {cs[i].context : i \in {j \in DOMAIN cs :
                                          cs[j].fn = "DestroyContext"}}
                \ {cur.context}
    IN [h \in DOMAIN native_contexts \ dead |-> native_contexts[h]]

DestroyContext(t, c, surface_ok, ok) ==
    /\ Idle(t)
    /\ Mine(t, c)
    /\ LET r == destroy_context(contexts[c], current[t], surface_ok, ok)
       IN /\ contexts' = [contexts EXCEPT ![c] = r.context]
          /\ current' = [current EXCEPT ![t] = r.current]
          /\ native_contexts' = AfterDestroyContext(r.calls, r.current)
          /\ ghost' = [ghost EXCEPT
                 ![c].destroy_ok = @ \/ r.result = "Ok",
                 ![c].glXDestroyContext = @ + Count(r.calls, "DestroyContext"),
                 ![c].glXDestroyPixmap = @ + Count(r.calls, "DestroyPixmap")]
          /\ last' = Step("destroy_context", t, c, NoSurface, r.result,
                          NoSurface, r.calls)
    /\ UNCHANGED <<panicking, lifeRest>>
    /\ UNCHANGED configVars

\* The Context value goes out of scope, also while the thread unwinds.
DropContext(t, c) ==
    /\ pc[t] = "idle"
    /\ Mine(t, c)
    /\ LET panics == DropPanics(contexts[c], panicking[t])
       IN /\ panicking' = [panicking EXCEPT ![t] = @ \/ panics]
          /\ last' = Step("drop", t, c, NoSurface,
                          IF panics THEN "panic" ELSE "Ok", NoSurface, <<>>)
    /\ ghost' = [ghost EXCEPT ![c].dropped = TRUE]
    /\ UNCHANGED <<contexts, current, native_contexts, lifeRest>>
    /\ UNCHANGED configVars

\* The thread starts unwinding from a failure of its own.
UserPanic(t) ==
    /\ Idle(t)
    /\ panicking' = [panicking EXCEPT ![t] = TRUE]
    /\ last' = Step("panic", t, 0, NoSurface, "panic", NoSurface, <<>>)
    /\ UNCHANGED <<contexts, ghost, current, native_contexts, lifeRest>>
    /\ UNCHANGED configVars

\* ---------------------------------------------------------- config matcher
\* ContextAttributeFlags and ContextAttributes { flags, version }.
ContextAttributeFlags == {"ALPHA", "DEPTH", "STENCIL"}

ContextAttributes == [flags : SUBSET ContextAttributeFlags, version : GLVersions]

\* The sizes drivers offer for the three buffers the file asks about.
AlphaSizes == {0, 8}
DepthSizes == {0, 16, 24}
StencilSizes == {0, 8}

\* Lists of n configs, the i-th with GLX_FBCONFIG_ID i.
FBConfigListsOf(n) ==
    {[i \in 1..n |-> FBConfig(i, f[i][1], f[i][2], f[i][3])] :
        f \in [1..n -> AlphaSizes \X DepthSizes \X StencilSizes]}

FBConfigLists == UNION {FBConfigListsOf(n) : n \in 0..MaxConfigs}

\* pixmap_config_attributes: the sizes asked for (the other criteria are the
\* same for every request).
ConfigAttributes(attributes) ==
    [alpha_size |-> IF "ALPHA" \in attributes.flags THEN 8 ELSE 0,
     depth_size |-> IF "DEPTH" \in attributes.flags THEN 24 ELSE 0,
     stencil_size |-> IF "STENCIL" \in attributes.flags THEN 8 ELSE 0]

\* glx.ChooseFBConfig: GLX_ALPHA_SIZE, GLX_DEPTH_SIZE and GLX_STENCIL_SIZE are
\* minimum sizes; the configs meeting them, in the driver's order.
ChooseFBConfig(cfgs, wanted) ==
    SelectSeq(cfgs, LAMBDA cfg :
        /\ cfg.alpha_size >= wanted.alpha_size
        /\ cfg.depth_size >= wanted.depth_size
        /\ cfg.stencil_size >= wanted.stencil_size)

\* choose_fb_config_id: the GLX_FBCONFIG_ID of the first config returned.
choose_fb_config_id(cfgs, wanted) ==
    LET found == ChooseFBConfig(cfgs, wanted)
    IN IF Len(found) = 0
       THEN [result |-> "NoPixelFormatFound", id |-> 0]
       ELSE [result |-> "Ok", id |-> found[1].id]

\* create_context_descriptor(attributes)
create_context_descriptor(cfgs, attributes) ==
    LET chosen == choose_fb_config_id(cfgs, ConfigAttributes(attributes))
    IN [result |-> chosen.result,
        descriptor |-> [pixmap_glx_fb_config_id |-> chosen.id,
                        gl_version |-> attributes.version]]

\* get_fb_config_from_id: the first config of glx.GetFBConfigs with the id.
get_fb_config_from_id(cfgs, id) ==
    cfgs[CHOOSE i \in DOMAIN cfgs :
            /\ cfgs[i].id = id
            /\ \A j \in DOMAIN cfgs : cfgs[j].id = id => i <= j]

\* context_descriptor_attributes(context_descriptor)
context_descriptor_attributes(cfgs, d) ==
    LET cfg == get_fb_config_from_id(cfgs, d.pixmap_glx_fb_config_id)
    IN [flags |-> {f \in ContextAttributeFlags :
                      \/ f = "ALPHA" /\ cfg.alpha_size # 0
                      \/ f = "DEPTH" /\ cfg.depth_size # 0
                      \/ f = "STENCIL" /\ cfg.stencil_size # 0},
        version |-> d.gl_version]

CreateContextDescriptor(attributes) ==
    /\ LET r == create_context_descriptor(fb_configs, attributes)
       IN /\ descriptor' = IF r.result = "Ok" THEN <<r.descriptor>> ELSE <<>>
          /\ last' = Step("create_context_descriptor", 0, 0, NoSurface,
                          r.result, NoSurface, <<>>)
    /\ requested' = <<attributes>>
    /\ reported' = <<>>
    /\ UNCHANGED <<contexts, ghost, current, panicking, native_contexts,
                   lifeRest, fb_configs>>

ContextDescriptorAttributes ==
    /\ descriptor # <<>>
    /\ reported = <<>>
    /\ reported' = <<context_descriptor_attributes(fb_configs, descriptor[1])>>
    /\ last' = Step("context_descriptor_attributes", 0, 0, NoSurface, "Ok",
                    NoSurface, <<>>)
    /\ UNCHANGED <<contexts, ghost, current, panicking, native_contexts,
                   lifeRest, fb_configs, requested, descriptor>>

\* ---------------------------------------------------------------- the specs
Init ==
    /\ contexts = <<>>
    /\ ghost = <<>>
    /\ next_context_id = 0
    /\ mutex = 0
    /\ pc = [t \in Threads |-> "idle"]
    /\ local = [t \in Threads |-> NoLocal]
    /\ calls = [t \in Threads |-> 0]
    /\ current = [t \in Threads |-> NoCurrent]
    /\ panicking = [t \in Threads |-> FALSE]
    /\ native_contexts =
           (HostGLXContext :> NativeContextInfo(DefaultFBConfigs[1].id,
                                                HostGLVersion))
    /\ last = Step("init", 0, 0, NoSurface, "Ok", NoSurface, <<>>)
    /\ fb_configs = DefaultFBConfigs
    /\ requested = <<>>
    /\ descriptor = <<>>
    /\ reported = <<>>

\* Threads creating and adopting contexts concurrently.
NextCreate ==
    \/ \E t \in Threads, d \in ContextDescriptors : CreateContextLock(t, d)
    \/ \E t \in Threads, ok \in BOOLEAN : CreateContextAttribsARB(t, ok)
    \/ \E t \in Threads : FromCurrentContextLock(t)
    \/ \E t \in Threads : GetCurrentContext(t)
    \/ \E t \in Threads, ok \in BOOLEAN : CreatePixmaps(t, ok)
    \/ \E t \in Threads : AssignId(t)
    \/ \E t \in Threads : IncrementId(t)
    \/ \E t \in Threads : HostMakeCurrent(t)

SpecCreate == Init /\ [][NextCreate]_vars

\* One thread creating, using, destroying and releasing its contexts.
Next ==
    \/ \E t \in OpThreads, d \in ContextDescriptors : CreateContextLock(t, d)
    \/ \E t \in OpThreads, ok \in BOOLEAN : CreateContextAttribsARB(t, ok)
    \/ \E t \in OpThreads : FromCurrentContextLock(t)
    \/ \E t \in OpThreads : GetCurrentContext(t)
    \/ \E t \in OpThreads, ok \in BOOLEAN : CreatePixmaps(t, ok)
    \/ \E t \in OpThreads : AssignId(t)
    \/ \E t \in OpThreads : IncrementId(t)
    \/ \E t \in OpThreads : HostMakeCurrent(t)
    \/ \E t \in OpThreads, c \in DOMAIN contexts, s \in Surfaces :
           BindSurface(t, c, s)
    \/ \E t \in OpThreads, c \in DOMAIN contexts, ok \in BOOLEAN :
           UnbindSurface(t, c, ok)
    \/ \E t \in OpThreads, c \in DOMAIN contexts : ContextSurfaceInfo(t, c)
    \/ \E t \in OpThreads, c \in DOMAIN contexts, ok \in BOOLEAN :
           MakeContextCurrent(t, c, ok)
    \/ \E t \in OpThreads, ok \in BOOLEAN : MakeNoContextCurrent(t, ok)
    \/ \E t \in OpThreads, c \in DOMAIN contexts : ContextDescriptor(t, c)
    \/ \E t \in OpThreads, c \in DOMAIN contexts : ContextId(t, c)
    \/ \E t \in OpThreads, c \in DOMAIN contexts, surface_ok \in BOOLEAN,
          ok \in BOOLEAN : DestroyContext(t, c, surface_ok, ok)
    \/ \E t \in OpThreads, c \in DOMAIN contexts : DropContext(t, c)
    \/ \E t \in OpThreads : UserPanic(t)

Spec == Init /\ [][Next]_vars

\* A thread calls a creation function: it waits for the lock and takes it.
Call(t) ==
    \/ \E d \in ContextDescriptors : CreateContextLock(t, d)
    \/ FromCurrentContextLock(t)

\* A thread inside a creation function takes its next step: the statements
\* between the lock and the return are straight-line code and native calls.
InCall(t) ==
    \/ \E ok \in BOOLEAN : CreateContextAttribsARB(t, ok)
    \/ GetCurrentContext(t)
    \/ \E ok \in BOOLEAN : CreatePixmaps(t, ok)
    \/ AssignId(t)
    \/ IncrementId(t)

\* SpecCreate under a fair scheduler and native calls that return: a thread
\* inside a creation function keeps running, and a thread that has a call to
\* make and finds the lock free for good makes it. (A thread is either
\* inside a call or before one, so one condition per thread covers both.)
FairSpecCreate ==
    /\ Init
    /\ [][NextCreate]_vars
    /\ \A t \in Threads : WF_vars(Call(t) \/ InCall(t))

\* Threads creating and adopting contexts concurrently while one of them
\* binds, unbinds, makes current and destroys the contexts it holds.
NextIdentity ==
    \/ \E t \in Threads, d \in ContextDescriptors : CreateContextLock(t, d)
    \/ \E t \in Threads, ok \in BOOLEAN : CreateContextAttribsARB(t, ok)
    \/ \E t \in Threads : FromCurrentContextLock(t)
    \/ \E t \in Threads : GetCurrentContext(t)
    \/ \E t \in Threads, ok \in BOOLEAN : CreatePixmaps(t, ok)
    \/ \E t \in Threads : AssignId(t)
    \/ \E t \in Threads : IncrementId(t)
    \/ \E t \in Threads : HostMakeCurrent(t)
    \/ \E t \in OpThreads, c \in DOMAIN contexts, s \in Surfaces :
           BindSurface(t, c, s)
    \/ \E t \in OpThreads, c \in DOMAIN contexts, ok \in BOOLEAN :
           UnbindSurface(t, c, ok)
    \/ \E t \in OpThreads, c \in DOMAIN contexts, ok \in BOOLEAN :
           MakeContextCurrent(t, c, ok)
    \/ \E t \in OpThreads, c \in DOMAIN contexts, surface_ok \in BOOLEAN,
          ok \in BOOLEAN : DestroyContext(t, c, surface_ok, ok)

SpecIdentity == Init /\ [][NextIdentity]_vars

\* The config matcher against every list of configs a driver may offer.
InitConfig ==
    /\ contexts = <<>>
    /\ ghost = <<>>
    /\ next_context_id = 0
    /\ mutex = 0
    /\ pc = [t \in Threads |-> "idle"]
    /\ local = [t \in Threads |-> NoLocal]
    /\ calls = [t \in Threads |-> 0]
    /\ current = [t \in Threads |-> NoCurrent]
    /\ panicking = [t \in Threads |-> FALSE]
    /\ native_contexts =
           (HostGLXContext :> NativeContextInfo(DefaultFBConfigs[1].id,
                                                HostGLVersion))
    /\ last = Step("init", 0, 0, NoSurface, "Ok", NoSurface, <<>>)
    /\ fb_configs \in FBConfigLists
    /\ requested = <<>>
    /\ descriptor = <<>>
    /\ reported = <<>>

NextConfig ==
    \/ \E attributes \in ContextAttributes : CreateContextDescriptor(attributes)
    \/ ContextDescriptorAttributes

SpecConfig == InitConfig /\ [][NextConfig]_vars

\* ------------------------------------------------------------------ claims
\* Context values that are held (not released) and not destroyed.
Alive(c) == ~ghost[c].dropped /\ ~is_destroyed(contexts[c].native_context)

Adopted(c) == contexts[c].native_context.variant = "Ref"

Created(c) == contexts[c].native_context.variant = "Owned"

\* The step taken is operation op on Context value c.
IsStep(op, c) == last'.op = op /\ last'.ctx = c

\* Everything but `last` is left as it was.
NothingChanges ==
    UNCHANGED <<contexts, ghost, next_context_id, mutex, pc, local, calls,
                current, panicking, native_contexts, configVars>>

\* C1: a context adopted by from_current_context stays External until it is
\* destroyed: whatever bind_surface, unbind_surface, surface_info and
\* make_current calls were made on it, its framebuffer is still External.
C1_AdoptedStaysExternal ==
    \A c \in DOMAIN contexts :
        Adopted(c) /\ Alive(c) => contexts[c].framebuffer.tag = "External"

\* Every thread has made one creation call, a create_context, and each call
\* has returned a context.
AllCreatedOnce ==
    /\ \A t \in Threads :
          /\ pc[t] = "idle"
          /\ calls[t] = 1
          /\ Cardinality({c \in DOMAIN contexts :
                            ghost[c].thread = t /\ Created(c)}) = 1
    /\ Len(contexts) = NumThreads

\* C2: when every thread has made exactly one creation call, a create_context,
\* and all of them have returned a context, the identities are pairwise
\* distinct, consecutive and increasing in the order the calls returned.
C2_ConcurrentIdentities ==
    AllCreatedOnce =>
        LET ids == {contexts[c].id : c \in DOMAIN contexts}
        IN /\ Cardinality(ids) = NumThreads
           /\ \E lo \in ids : ids = lo..(lo + NumThreads - 1)
           /\ \A c1, c2 \in DOMAIN contexts :
                  c1 < c2 => contexts[c1].id < contexts[c2].id

C2_Witness == AllCreatedOnce

\* C3: unbind_surface right after a successful bind_surface of s on the same
\* context returns Some(s), that very surface, and leaves the context
\* Unbound, whatever glx.MakeCurrent answered during the unbind.
C3_BindThenUnbind ==
    [][\A c \in DOMAIN contexts :
          (/\ last.op = "bind_surface" /\ last.ctx = c /\ last.result = "Ok"
           /\ IsStep("unbind_surface", c))
          => /\ last'.result = "Ok"
             /\ last'.ret = last.arg
             /\ last'.ret # NoSurface
             /\ contexts'[c].framebuffer = FramebufferNone]_vars

C3_Witness ==
    /\ last.op = "unbind_surface"
    /\ last.result = "Ok"
    /\ last.ret \in Surfaces
    /\ \E i \in DOMAIN last.calls :
          last.calls[i].fn = "MakeCurrent" /\ ~last.calls[i].ok
    /\ contexts[last.ctx].framebuffer = FramebufferNone

\* C4: bind_surface with a surface made for another identity fails with
\* IncompatibleSurface whatever the framebuffer is (None, Surface, External),
\* and leaves the context as it was.
C4_IncompatibleSurfaceFirst ==
    [][\A c \in DOMAIN contexts :
          (IsStep("bind_surface", c) /\ last'.arg.context_id # contexts[c].id)
          => /\ last'.result = "IncompatibleSurface"
             /\ contexts' = contexts]_vars

C4_Witness ==
    /\ last.op = "bind_surface"
    /\ last.result = "IncompatibleSurface"
    /\ contexts[last.ctx].framebuffer.tag = "Surface"

\* C5: bind_surface with a surface of the context's own identity fails with
\* SurfaceAlreadyBound on a bound context and with ExternalRenderTarget on an
\* External one, and leaves the context as it was.
C5_BindOnBoundOrExternal ==
    [][\A c \in DOMAIN contexts :
          (IsStep("bind_surface", c) /\ last'.arg.context_id = contexts[c].id)
          => /\ contexts[c].framebuffer.tag = "Surface" =>
                    last'.result = "SurfaceAlreadyBound" /\ contexts' = contexts
             /\ contexts[c].framebuffer.tag = "External" =>
                    last'.result = "ExternalRenderTarget" /\ contexts' = contexts
       ]_vars

C5_Witness ==
    /\ last.op = "bind_surface"
    /\ last.result = "SurfaceAlreadyBound"
    /\ contexts[last.ctx].framebuffer.tag = "Surface"
    /\ contexts[last.ctx].framebuffer.surface # last.arg

\* C6: destroy_context right after a destroy_context that succeeded on the
\* same context succeeds again, invokes nothing native and changes no state.
C6_DestroyTwice ==
    [][\A c \in DOMAIN contexts :
          (/\ last.op = "destroy_context" /\ last.ctx = c /\ last.result = "Ok"
           /\ IsStep("destroy_context", c))
          => /\ last'.result = "Ok"
             /\ last'.calls = <<>>
             /\ NothingChanges]_vars

C6_Witness ==
    /\ last.op = "destroy_context"
    /\ last.result = "Ok"
    /\ last.calls = <<>>
    /\ ghost[last.ctx].destroy_ok

\* C7: make_current on a context whose framebuffer is External fails with
\* ExternalRenderTarget, and neither it nor unbind_surface on such a context
\* invokes glx.MakeCurrent.
C7_ExternalNeverMadeCurrent ==
    [][\A c \in DOMAIN contexts :
          contexts[c].framebuffer.tag = "External"
          => /\ IsStep("make_current", c) =>
                    /\ last'.result = "ExternalRenderTarget"
                    /\ last'.calls = <<>>
                    /\ current' = current
             /\ IsStep("unbind_surface", c) =>
                    /\ "MakeCurrent" \notin Fns(last'.calls)
                    /\ current' = current]_vars

C7_Witness ==
    /\ last.op = "make_current"
    /\ last.result = "ExternalRenderTarget"
    /\ contexts[last.ctx].framebuffer.tag = "External"

\* C8: releasing a Context panics exactly when its handle is not destroyed
\* and the thread is not already panicking; once destroy_context has returned
\* success on it, releasing it does not panic.
C8_DropPanicsIffNotDestroyed ==
    [][\A c \in DOMAIN contexts :
          IsStep("drop", c)
          => /\ last'.result = "panic" <=>
                    /\ ~is_destroyed(contexts[c].native_context)
                    /\ ~panicking[ghost[c].thread]
             /\ ghost[c].destroy_ok => last'.result = "Ok"]_vars

C8_Witness ==
    /\ last.op = "drop"
    /\ last.result = "Ok"
    /\ ghost[last.ctx].destroy_ok
    /\ Adopted(last.ctx)
    /\ ~panicking[last.thread]

\* C9: context_descriptor_attributes of the descriptor create_context_descriptor
\* returned for attributes a reports the flags and the version of a.
C9_AttributesRoundTrip ==
    reported # <<>> =>
        /\ reported[1].flags = requested[1].flags
        /\ reported[1].version = requested[1].version

\* C10: glx.DestroyContext is called at most once for a context made by
\* create_context, exactly once when destroy_context has returned success on
\* it, and never for a context made by from_current_context, whose destroy
\* only nulls the handle.
C10_NativeDestroyOnce ==
    \A c \in DOMAIN contexts :
        /\ ghost[c].glXDestroyContext <= 1
        /\ Created(c) /\ ghost[c].destroy_ok => ghost[c].glXDestroyContext = 1
        /\ Created(c) /\ ghost[c].glXDestroyContext = 1 =>
               is_destroyed(contexts[c].native_context)
        /\ Adopted(c) => ghost[c].glXDestroyContext = 0
        /\ Adopted(c) /\ ghost[c].destroy_ok =>
               is_destroyed(contexts[c].native_context)

C10_Witness ==
    /\ last.op = "destroy_context"
    /\ last.calls = <<>>
    /\ Created(last.ctx)
    /\ ghost[last.ctx].glXDestroyContext = 1

\* The step taken invoked glx.MakeCurrent and it answered False.
MakeCurrentRefused(step) ==
    \E i \in DOMAIN step.calls :
        step.calls[i].fn = "MakeCurrent" /\ ~step.calls[i].ok

\* C11: unbind_surface never returns MakeCurrentFailed: on a context with
\* surface s bound it returns Some(s), on an unbound context None, and in
\* both cases the context is left unbound, also when the glx.MakeCurrent of
\* the flush answers False.
C11_UnbindSwallowsFlushFailure ==
    [][\A c \in DOMAIN contexts :
          IsStep("unbind_surface", c)
          => /\ last'.result # "MakeCurrentFailed"
             /\ contexts[c].framebuffer.tag = "Surface" =>
                    /\ last'.result = "Ok"
                    /\ last'.ret = contexts[c].framebuffer.surface
                    /\ contexts'[c].framebuffer = FramebufferNone
             /\ contexts[c].framebuffer.tag = "None" =>
                    /\ last'.result = "Ok"
                    /\ last'.ret = NoSurface
                    /\ contexts'[c].framebuffer = FramebufferNone]_vars

C11_Witness ==
    /\ last.op = "unbind_surface"
    /\ last.result = "Ok"
    /\ last.ret = NoSurface
    /\ MakeCurrentRefused(last)
    /\ contexts[last.ctx].framebuffer = FramebufferNone

\* The errors create_context and from_current_context return.
CreationErrors ==
    {"NoCurrentContext", "ContextCreationFailed", "CreatePixmapsFailed"}

\* C12: over every interleaving of create_context and from_current_context
\* calls of several threads, with bind_surface, unbind_surface, make_current
\* and destroy_context calls in between: the counter never decreases and
\* counts the contexts produced, a creation call that fails leaves it as it
\* was, no step changes the identity of a context already produced, no two
\* contexts ever produced (destroyed ones included) share an identity, and
\* the identities increase in the order the lock was acquired.
C12_IdentitiesAssignedOnce ==
    [][/\ next_context_id' >= next_context_id
       /\ next_context_id' = Len(contexts')
       /\ last'.result \in CreationErrors =>
              next_context_id' = next_context_id /\ contexts' = contexts
       /\ \A c \in DOMAIN contexts :
              /\ c \in DOMAIN contexts'
              /\ contexts'[c].id = contexts[c].id
       /\ \A c1, c2 \in DOMAIN contexts' :
              /\ c1 # c2 => contexts'[c1].id # contexts'[c2].id
              /\ ghost'[c1].ticket < ghost'[c2].ticket =>
                     contexts'[c1].id < contexts'[c2].id
       /\ \A c \in DOMAIN contexts' : contexts'[c].id < next_context_id'
      ]_vars

\* Two threads hold a context each, the later caller being the thread the
\* operations run on, which has just destroyed its context.
C12_Witness ==
    /\ Len(contexts) = 2
    /\ ghost[1].thread # ghost[2].thread
    /\ ghost[1].ticket < ghost[2].ticket
    /\ last.op = "destroy_context"
    /\ last.ctx = 2
    /\ is_destroyed(contexts[2].native_context)
    /\ contexts[1].id # contexts[2].id

\* C13: make_current on a context that is not destroyed and whose framebuffer
\* is a surface or None invokes glx.MakeCurrent once, with the bound
\* surface's drawable or else the dummy pixmap, and with the context's own
\* handle; it returns Ok exactly when the call answered True and
\* MakeCurrentFailed when it answered False, and after Ok the drawable and
\* the handle passed are the thread's current ones.
C13_MakeCurrentDrawable ==
    [][\A c \in DOMAIN contexts :
          (IsStep("make_current", c) /\ contexts[c].framebuffer.tag # "External")
          => LET fb == contexts[c].framebuffer
                 h == contexts[c].native_context.glx_context
                 d == IF fb.tag = "Surface" THEN fb.surface.drawables.xid
                      ELSE contexts[c].dummy_glx_pixmap
                 t == last'.thread
             IN /\ h # NullContext
                /\ Len(last'.calls) = 1
                /\ last'.calls[1].fn = "MakeCurrent"
                /\ last'.calls[1].drawable = d
                /\ last'.calls[1].context = h
                /\ last'.result = "Ok" <=> last'.calls[1].ok
                /\ last'.result = "MakeCurrentFailed" <=> ~last'.calls[1].ok
                /\ last'.result = "Ok" =>
                       current'[t] = [drawable |-> d, context |-> h]
                /\ contexts' = contexts]_vars

\* make_current succeeded on a context with a surface bound, and the
\* surface's drawable, not the dummy pixmap, is current on the thread.
C13_Witness ==
    /\ last.op = "make_current"
    /\ last.result = "Ok"
    /\ contexts[last.ctx].framebuffer.tag = "Surface"
    /\ current[last.thread] =
           [drawable |-> contexts[last.ctx].framebuffer.surface.drawables.xid,
            context |-> contexts[last.ctx].native_context.glx_context]
    /\ current[last.thread].drawable # contexts[last.ctx].dummy_glx_pixmap

\* Thread t is inside create_context or from_current_context, between the
\* lock and the return.
InCreation(t) == pc[t] # "idle"

\* C14: at most one thread at a time is between acquiring the creation lock
\* and returning, and it is the holder of the lock; so at most one thread is
\* at glx.CreateContextAttribsARB, and the counter a thread is about to
\* increment is still the value it assigned.
C14_CreationSerialized ==
    /\ \A t1, t2 \in Threads : InCreation(t1) /\ InCreation(t2) => t1 = t2
    /\ \A t \in Threads : InCreation(t) <=> mutex = t
    /\ Cardinality({t \in Threads : pc[t] = "create_context"}) <= 1
    /\ \A t \in Threads :
          pc[t] = "increment_id" => local[t].id = next_context_id

\* A thread is about to increment the counter after another thread's call
\* has returned a context.
C14_Witness ==
    \E t \in Threads :
        /\ pc[t] = "increment_id"
        /\ mutex = t
        /\ next_context_id >= 1
        /\ local[t].id = next_context_id
        /\ \E u \in Threads \ {t} : \E c \in DOMAIN contexts : ghost[c].thread = u

\* The operations that take &Context and only read it.
ReadOps == {"context_descriptor", "surface_info", "context_id"}

\* C15: context_descriptor, surface_info and context_id leave every context
\* (framebuffer, identity, GL version, dummy pixmap, handle) and the thread's
\* current context as they were; surface_info returns None for a None
\* framebuffer, Some(info of s) for Surface(s) and fails with
\* ExternalRenderTarget for External.
C15_ReadOperationsPure ==
    [][\A c \in DOMAIN contexts :
          /\ (last'.op \in ReadOps /\ last'.ctx = c)
             => /\ contexts' = contexts
                /\ current' = current
                /\ native_contexts' = native_contexts
                /\ ghost' = ghost
                /\ next_context_id' = next_context_id
          /\ IsStep("surface_info", c)
             => LET fb == contexts[c].framebuffer
                IN /\ fb.tag = "None" =>
                          last'.result = "Ok" /\ last'.ret = NoSurfaceInfo
                   /\ fb.tag = "Surface" =>
                          /\ last'.result = "Ok"
                          /\ last'.ret = SurfaceInfo(fb.surface)
                          /\ last'.ret # NoSurfaceInfo
                   /\ fb.tag = "External" =>
                          last'.result = "ExternalRenderTarget"
          /\ IsStep("context_id", c) => last'.ret = [id |-> contexts[c].id]
      ]_vars

\* surface_info has just failed on an External context that is current on
\* its thread, and the context is still External.
C15_Witness ==
    /\ last.op = "surface_info"
    /\ last.result = "ExternalRenderTarget"
    /\ contexts[last.ctx].framebuffer = FramebufferExternal
    /\ current[last.thread].context =
           contexts[last.ctx].native_context.glx_context

\* The places of entry point fn among the native calls cs.
Places(cs, fn) == {i \in DOMAIN cs : cs[i].fn = fn}

\* C16: destroy_context on a context that is not destroyed calls
\* destroy_surface first, and only when a surface is bound, then
\* glx.DestroyPixmap on the dummy pixmap, then the handle's destroy
\* (glx.MakeCurrent and glx.DestroyContext for an owned handle, nothing native
\* for a borrowed one); when it returns Ok the framebuffer is None, the dummy
\* pixmap has been released exactly once and is 0, and the handle is
\* destroyed.
C16_TeardownOrder ==
    [][\A c \in DOMAIN contexts :
          (IsStep("destroy_context", c)
           /\ ~is_destroyed(contexts[c].native_context))
          => LET cs == last'.calls
                 fb == contexts[c].framebuffer
             IN /\ fb.tag = "Surface" =>
                       /\ Places(cs, "destroy_surface") = {1}
                       /\ cs[1].drawable = fb.surface.drawables.xid
                /\ fb.tag # "Surface" => Places(cs, "destroy_surface") = {}
                /\ \A i \in Places(cs, "destroy_surface"),
                      j \in Places(cs, "DestroyPixmap") : i < j
                /\ \A i \in Places(cs, "DestroyPixmap"),
                      j \in Places(cs, "MakeCurrent")
                            \cup Places(cs, "DestroyContext") : i < j
                /\ last'.result = "Ok" =>
                       /\ Cardinality(Places(cs, "DestroyPixmap")) = 1
                       /\ \A i \in Places(cs, "DestroyPixmap") :
                              /\ cs[i].drawable = contexts[c].dummy_glx_pixmap
                              /\ cs[i].drawable # NoDrawable
                       /\ Created(c) =>
                              /\ Cardinality(Places(cs, "DestroyContext")) = 1
                              /\ \A i \in Places(cs, "DestroyContext") :
                                     cs[i].context =
                                         contexts[c].native_context.glx_context
                       /\ Adopted(c) =>
                              Places(cs, "DestroyContext") = {}
                       /\ contexts'[c].framebuffer = FramebufferNone
                       /\ contexts'[c].dummy_glx_pixmap = NoDrawable
                       /\ is_destroyed(contexts'[c].native_context)
                       /\ ghost'[c].glXDestroyPixmap = 1]_vars

\* destroy_context has succeeded on a created context with a surface bound:
\* destroy_surface, glx.DestroyPixmap, glx.MakeCurrent, glx.DestroyContext.
C16_Witness ==
    /\ last.op = "destroy_context"
    /\ last.result = "Ok"
    /\ Len(last.calls) = 4
    /\ last.calls[1].fn = "destroy_surface"
    /\ last.calls[2].fn = "DestroyPixmap"
    /\ last.calls[4].fn = "DestroyContext"
    /\ is_destroyed(contexts[last.ctx].native_context)
    /\ ghost[last.ctx].glXDestroyPixmap = 1

\* C17: when destroy_surface fails, destroy_context returns its error having
\* called nothing else: the dummy pixmap and the handle are as they were,
\* the context is not destroyed (releasing it panics), the framebuffer is
\* None and nothing native has changed; destroy_context fails in no other
\* way, so a destroy_context on the context as it was left (the next call,
\* or any later one with no surface bound) releases the dummy pixmap,
\* destroys the handle and returns Ok.
C17_SurfaceDestroyFails ==
    [][\A c \in DOMAIN contexts :
          IsStep("destroy_context", c)
          => /\ last'.result # "Ok" =>
                    /\ last'.result = "DestroySurfaceFailed"
                    /\ contexts[c].framebuffer.tag = "Surface"
                    /\ Len(last'.calls) = 1
                    /\ last'.calls[1].fn = "destroy_surface"
                    /\ ~last'.calls[1].ok
                    /\ contexts'[c] =
                           [contexts[c] EXCEPT !.framebuffer = FramebufferNone]
                    /\ contexts'[c].dummy_glx_pixmap # NoDrawable
                    /\ ~is_destroyed(contexts'[c].native_context)
                    /\ DropPanics(contexts'[c], FALSE)
                    /\ current' = current
                    /\ native_contexts' = native_contexts
                    /\ ghost'[c].glXDestroyPixmap = ghost[c].glXDestroyPixmap
                    /\ ghost'[c].glXDestroyContext = ghost[c].glXDestroyContext
             /\ (\/ contexts[c].framebuffer.tag # "Surface"
                 \/ (/\ last.op = "destroy_context" /\ last.ctx = c
                     /\ last.result = "DestroySurfaceFailed"))
                => /\ last'.result = "Ok"
                   /\ Places(last'.calls, "destroy_surface") = {}
                   /\ is_destroyed(contexts'[c].native_context)
                   /\ contexts'[c].dummy_glx_pixmap = NoDrawable
                   /\ is_destroyed(contexts[c].native_context)
                          => last'.calls = <<>>
                   /\ ~is_destroyed(contexts[c].native_context)
                          => Cardinality(Places(last'.calls, "DestroyPixmap")) = 1
      ]_vars

\* destroy_context has just failed in destroy_surface: the context is not
\* destroyed, holds no surface and still has its dummy pixmap.
C17_Witness ==
    /\ last.op = "destroy_context"
    /\ last.result = "DestroySurfaceFailed"
    /\ contexts[last.ctx].framebuffer = FramebufferNone
    /\ contexts[last.ctx].dummy_glx_pixmap # NoDrawable
    /\ ~is_destroyed(contexts[last.ctx].native_context)
    /\ ghost[last.ctx].glXDestroyPixmap = 0

\* C18: the lock is held exactly by the thread inside a creation call, so
\* every return (success, NoCurrentContext, ContextCreationFailed, the error
\* of create_pixmaps) has released it; under fair scheduling every creation
\* call the threads have to make is made and returns, whichever calls
\* failed: from some point on no thread is inside a creation call, no call
\* is left to make and the lock is free, so every call that began has
\* returned and none was kept waiting forever.
C18_EveryCallReturns ==
    /\ [](\A t \in Threads : InCreation(t) <=> mutex = t)
    /\ [](last.result \in CreationErrors => mutex # last.thread)
    /\ <>[](/\ Attempts = MaxAttempts
            /\ mutex = 0
            /\ \A t \in Threads : ~InCreation(t))

\* Every creation call has been made and has returned, a failed one before
\* a successful one of another thread, and the lock is free.
C18_Witness ==
    /\ Attempts = MaxAttempts
    /\ mutex = 0
    /\ \A t \in Threads : ~InCreation(t)
    /\ last.op \in {"create_context", "from_current_context"}
    /\ last.result = "Ok"
    /\ Len(contexts) = 1
    /\ last.ctx = 1
    /\ \E t \in Threads \ {last.thread} : calls[t] >= 1

\* The errors bind_surface_to_context returns.
BindErrors ==
    {"IncompatibleSurface", "SurfaceAlreadyBound", "ExternalRenderTarget"}

\* C19: a bind_surface that fails returns one of its three errors and
\* nothing else: the framebuffer of every context is as it was (the surface
\* passed in is not bound), no surface is handed back and destroy_surface is
\* not called. The only step that hands a surface to the caller is an
\* unbind_surface that returns Ok, and the surface is the one that was bound.
C19_FailedBindKeepsNothing ==
    [][/\ \A c \in DOMAIN contexts :
              (IsStep("bind_surface", c) /\ last'.result # "Ok")
              => /\ last'.result \in BindErrors
                 /\ contexts' = contexts
                 /\ last'.ret = NoSurface
                 /\ last'.calls = <<>>
       /\ (last'.op \in {"bind_surface", "unbind_surface", "make_current",
                         "destroy_context", "drop"}
           /\ last'.ret # NoSurface)
          => /\ last'.op = "unbind_surface"
             /\ last'.result = "Ok"
             /\ contexts[last'.ctx].framebuffer = FramebufferSurface(last'.ret)
      ]_vars

\* bind_surface has just failed on an External context with a surface made
\* for that context, and the context is still External.
C19_Witness ==
    /\ last.op = "bind_surface"
    /\ last.result = "ExternalRenderTarget"
    /\ last.arg.context_id = contexts[last.ctx].id
    /\ last.ret = NoSurface
    /\ contexts[last.ctx].framebuffer = FramebufferExternal

\* C20: unbind_surface on a context whose framebuffer is a surface or None
\* first invokes glx.MakeCurrent with the bound surface's drawable, or else
\* the dummy pixmap, and the context's handle; when that answers True the
\* pair is the thread's current one when unbind_surface returns, whatever was
\* current before, and when it answers False the current one is as it was.
\* gl.Flush and glx.SwapBuffers are invoked, after a successful
\* glx.MakeCurrent, exactly when the bound surface is a pixmap: not for a
\* window, and not when no surface is bound.
C20_UnbindMakesCurrent ==
    [][\A c \in DOMAIN contexts :
          (IsStep("unbind_surface", c) /\ contexts[c].framebuffer.tag # "External")
          => LET fb == contexts[c].framebuffer
                 h == contexts[c].native_context.glx_context
                 d == IF fb.tag = "Surface" THEN fb.surface.drawables.xid
                      ELSE contexts[c].dummy_glx_pixmap
                 pixmap == /\ fb.tag = "Surface"
                           /\ fb.surface.drawables.variant = "Pixmap"
                 cs == last'.calls
                 t == last'.thread
             IN /\ Len(cs) >= 1
                /\ cs[1].fn = "MakeCurrent"
                /\ cs[1].drawable = d
                /\ cs[1].context = h
                /\ Places(cs, "MakeCurrent") = {1}
                /\ cs[1].ok => current'[t] = [drawable |-> d, context |-> h]
                /\ ~cs[1].ok => current'[t] = current[t]
                /\ (pixmap /\ cs[1].ok) =>
                       /\ Len(cs) = 3
                       /\ cs[2].fn = "Flush"
                       /\ cs[3].fn = "SwapBuffers"
                       /\ cs[3].drawable = d
                /\ ~(pixmap /\ cs[1].ok) => Len(cs) = 1]_vars

\* unbind_surface has handed back a window surface: glx.MakeCurrent answered
\* True and was the only native call, and the window and the context's
\* handle are current on the thread although the surface is no longer bound.
C20_Witness ==
    /\ last.op = "unbind_surface"
    /\ last.result = "Ok"
    /\ last.ret \in Surfaces
    /\ last.ret.drawables.variant = "Window"
    /\ Len(last.calls) = 1
    /\ last.calls[1].ok
    /\ current[last.thread] =
           [drawable |-> last.ret.drawables.xid,
            context |-> contexts[last.ctx].native_context.glx_context]
    /\ contexts[last.ctx].framebuffer = FramebufferNone

\* C21: whenever destroy_context on a context made by create_context reaches
\* the handle's destroy (the context was not destroyed and destroy_surface,
\* if called, did not fail), glx.MakeCurrent is invoked once, with no
\* drawable and a null context, right before glx.DestroyContext, whichever
\* context is current on the thread, this one or another; when it answers
\* True the thread has no current context after the call. destroy_context on
\* a context made by from_current_context, and on a context already
\* destroyed, never invokes glx.MakeCurrent and leaves the thread's current
\* context as it was.
C21_DestroyDetachesCurrent ==
    [][\A c \in DOMAIN contexts :
          IsStep("destroy_context", c)
          => LET cs == last'.calls
                 t == last'.thread
                 fresh == ~is_destroyed(contexts[c].native_context)
             IN /\ (Created(c) /\ fresh /\ last'.result = "Ok") =>
                       /\ Cardinality(Places(cs, "MakeCurrent")) = 1
                       /\ Cardinality(Places(cs, "DestroyContext")) = 1
                       /\ \A j \in Places(cs, "DestroyContext") :
                              /\ j > 1
                              /\ cs[j - 1].fn = "MakeCurrent"
                              /\ cs[j - 1].drawable = NoDrawable
                              /\ cs[j - 1].context = NullContext
                              /\ cs[j - 1].ok => current'[t] = NoCurrent
                              /\ ~cs[j - 1].ok => current'[t] = current[t]
                /\ (Created(c) /\ fresh /\ last'.result # "Ok") =>
                       /\ Places(cs, "MakeCurrent") = {}
                       /\ Places(cs, "DestroyContext") = {}
                       /\ current' = current
                /\ (Adopted(c) \/ ~fresh) =>
                       /\ Places(cs, "MakeCurrent") = {}
                       /\ current' = current]_vars

\* destroy_context has succeeded on a created context while the host's
\* context, not the destroyed one, was current on the thread: glx.MakeCurrent
\* was invoked with a null context, answered False, and the host's context
\* is still current.
C21_Witness ==
    /\ last.op = "destroy_context"
    /\ last.result = "Ok"
    /\ Created(last.ctx)
    /\ is_destroyed(contexts[last.ctx].native_context)
    /\ MakeCurrentRefused(last)
    /\ Places(last.calls, "DestroyContext") # {}
    /\ current[last.thread] =
           [drawable |-> HostDrawable, context |-> HostGLXContext]

\* The handles the Context values refer to.
Handles(cs) == {cs[c].native_context.glx_context : c \in DOMAIN cs}

\* C22: create_context returns an error in two ways only. With
\* ContextCreationFailed, when glx.CreateContextAttribsARB returned null: the
\* driver has the contexts it had. With the error of create_pixmaps, after
\* the native context was made: that native context stays alive, no
\* glx.DestroyContext is called, and no Context value refers to it. In both
\* cases no Context value is produced, the counter is as it was (it still
\* counts the contexts produced) and the lock is released.
C22_CreateContextFailures ==
    [][(last'.op = "create_context"
        /\ last'.result \notin {"locked", "native", "pixmaps", "assigned", "Ok"})
       => LET t == last'.thread
              h == local[t].glx_context
          IN /\ last'.result \in {"ContextCreationFailed", "CreatePixmapsFailed"}
             /\ last'.result = "ContextCreationFailed" =>
                    /\ pc[t] = "create_context"
                    /\ h = NullContext
                    /\ Len(last'.calls) = 1
                    /\ last'.calls[1].fn = "CreateContextAttribsARB"
                    /\ last'.calls[1].context = NullContext
                    /\ native_contexts' = native_contexts
             /\ last'.result = "CreatePixmapsFailed" =>
                    /\ pc[t] = "create_pixmaps"
                    /\ h # NullContext
                    /\ h \in DOMAIN native_contexts'
                    /\ native_contexts' = native_contexts
                    /\ Places(last'.calls, "DestroyContext") = {}
                    /\ h \notin Handles(contexts')
             /\ contexts' = contexts
             /\ next_context_id' = next_context_id
             /\ next_context_id' = Len(contexts')
             /\ mutex = t /\ mutex' = 0
             /\ pc'[t] = "idle"]_vars

\* create_context has just failed in create_pixmaps: the driver holds a
\* context, other than the host's, that no Context value refers to, and the
\* counter still counts the contexts produced.
C22_Witness ==
    /\ last.op = "create_context"
    /\ last.result = "CreatePixmapsFailed"
    /\ \E h \in DOMAIN native_contexts :
          h # HostGLXContext /\ h \notin Handles(contexts)
    /\ next_context_id = Len(contexts)
    /\ mutex = 0

====
